---------------------------- MODULE Spec2Model ----------------------------
(***************************************************************************)
(* rankfast: the Ford-Johnson (merge-insertion) batch sorter of            *)
(* crates/core and the resumable Stepper of crates/web.                    *)
(*                                                                         *)
(* Conventions.  Rust vectors are 0-indexed, TLA+ sequences 1-indexed: a   *)
(* sequence holds element k of the vector at position k + 1 (At, InsertAt).*)
(* Option<T> is a sequence of length 0 (None) or 1 (Some).  A dense        *)
(* vec![0; m + 1] is a function over 0..m.                                 *)
(***************************************************************************)
EXTENDS Integers, Sequences, FiniteSets, TLC

VARIABLES
    \* ---- batch sorter (crates/core) ----
    items,        \* the input of one rank_items call (a list of values)
    bphase,       \* "input" | "ranked" | "test"
    ranked,       \* what rank_items returned: [out, order, calls, panic]
    worst,        \* the test's `worst`, one entry per finished n (tests::worst_case...)
    \* ---- Stepper (crates/web/src/stepper.rs) ----
    n_items,      \* the argument of Stepper::new
    stack,        \* Stepper.stack: Vec<Frame>
    pending,      \* Stepper.pending: Option<Pending>
    comparisons,  \* Stepper.comparisons
    done,         \* Stepper.done: Option<Vec<usize>>
    panic,        \* "" while running, else the message of the panic that ended it
    emitted,      \* every Compare request in the order it was set pending
    \* ---- the driver of the stepper ----
    answers,      \* the answer history: the booleans the stepper accepted so far
    last_call,    \* "new" | "step" | "answer" | "take_order"
    ret,          \* what the last step()/answer() returned (None before the first)
    took,         \* what the last take_order() returned
    handed,       \* every order take_order() has handed out (returned as Some)
    \* ---- one call of a pure function (estimate_turns, jacobsthal_order, the hash codec) ----
    fn_call,      \* the call: [fn, arg]
    fn_result     \* Option of what the call returned

bvars == <<items, bphase, ranked, worst>>

svars == <<n_items, stack, pending, comparisons, done, panic, emitted>>

dvars == <<answers, last_call, ret, took, handed>>

pvars == <<fn_call, fn_result>>

vars == <<items, bphase, ranked, worst, n_items, stack, pending, comparisons, done, panic,
          emitted, answers, last_call, ret, took, handed, fn_call, fn_result>>

(***************************************************************************)
(* Bounds                                                                  *)
(***************************************************************************)
\* longest input list (with ties allowed) handed to rank_items
MaxLen == 5

\* largest n handed to Stepper::new
MaxN == 6

\* how many orders the driver lets take_order() hand out before it stops calling it
MaxHanded == 2

\* largest n handed to estimate_turns on its own
MaxTurnsArg == 64

\* largest count handed to jacobsthal_order on its own
MaxCount == 45

\* largest n of a sort whose answers follow a strict total order
MaxRanked == 6

\* longest answer history put through the hash codec
MaxAnswers == 4

\* longest run of foreign characters inserted into an encoded answer history
MaxJunk == 2

\* most items of a hash that is built and read back
MaxItems == 2

\* most characters of one such item
MaxItemLen == 2

\* most characters of a hash that is read without having been built
MaxHashLen == 2

(***************************************************************************)
(* Vector helpers                                                          *)
(***************************************************************************)
None == <<>>

Some(x) == <<x>>

At(v, k) == v[k + 1]

\* Vec::insert(pos, e)
InsertAt(v, pos, e) == SubSeq(v, 1, pos) \o <<e>> \o SubSeq(v, pos + 1, Len(v))

\* slice.swap(i, j)
Swap(v, i, j) == [v EXCEPT ![i + 1] = v[j + 1], ![j + 1] = v[i + 1]]

\* iter().position(|&x| x == m): the first index holding m, -1 for None
Position(v, m) ==
    IF \E k \in 1..Len(v) : v[k] = m
    THEN (CHOOSE k \in 1..Len(v) : v[k] = m /\ \A j \in 1..(k - 1) : v[j] # m) - 1
    ELSE -1

\* iter().copied().max().unwrap_or(0)
MaxOr0(v) ==
    IF Len(v) = 0 THEN 0
    ELSE CHOOSE x \in {v[k] : k \in 1..Len(v)} : \A k \in 1..Len(v) : v[k] <= x

Max2(a, b) == IF a >= b THEN a ELSE b

(***************************************************************************)
(* crates/core/src/lib.rs : ceil_log2, estimate_turns                      *)
(***************************************************************************)
RECURSIVE bit_length(_)
\* the while loop of ceil_log2: the number of shifts that bring v to 0
bit_length(v) == IF v > 0 THEN 1 + bit_length(v \div 2) ELSE 0

\* faulty variant: floor(log2) instead of the bit length of value - 1
ceil_log2_floor(value) == IF value <= 1 THEN 0 ELSE bit_length(value) - 1

ceil_log2(value) == IF value <= 1 THEN 0 ELSE bit_length(value - 1)

RECURSIVE search_cost(_, _)
\* the for loop of estimate_turns: sum of ceil_log2(chain_len + 1), chain_len in from..(to - 1)
search_cost(from, to) ==
    IF from >= to THEN 0 ELSE ceil_log2(from + 1) + search_cost(from + 1, to)

RECURSIVE estimate_turns(_)
\* faulty variant: the base case returns n instead of 0
estimate_turns_base_n(n) ==
    IF n <= 1 THEN n
    ELSE LET num_pairs == n \div 2
         IN  num_pairs + estimate_turns(num_pairs) + search_cost(num_pairs + 1, n)

estimate_turns(n) ==
    IF n <= 1 THEN 0
    ELSE LET num_pairs == n \div 2
         IN  num_pairs + estimate_turns(num_pairs) + search_cost(num_pairs + 1, n)

(***************************************************************************)
(* crates/core/src/lib.rs : jacobsthal_order                               *)
(***************************************************************************)
\* faulty variant: b_k mapped to index k - 1
jacobsthal_group_from_one(prev, top) == [k \in 1..(top - prev) |-> (top - k + 1) - 1]

\* faulty variant: the group in ascending order
jacobsthal_group_asc(prev, top) == [k \in 1..(top - prev) |-> (prev + k) - 2]

\* for b in (prev + 1..=top).rev() { order.push(b - 2) }
jacobsthal_group(prev, top) == [k \in 1..(top - prev) |-> (top - k + 1) - 2]

RECURSIVE jacobsthal_loop(_, _, _, _)
jacobsthal_loop(count, order, prev, curr) ==
    LET top  == IF curr <= count + 1 THEN curr ELSE count + 1
        ord2 == order \o jacobsthal_group(prev, top)
    IN  IF Len(ord2) >= count THEN ord2
        ELSE jacobsthal_loop(count, ord2, curr, curr + 2 * prev)

jacobsthal_order(count) ==
    IF count = 0 THEN <<>> ELSE jacobsthal_loop(count, <<>>, 1, 3)

RECURSIVE jacobsthal_passes(_, _, _, _)
\* the passes of the loop of jacobsthal_order: how many indices each pass pushed
jacobsthal_passes(count, len, prev, curr) ==
    LET top    == IF curr <= count + 1 THEN curr ELSE count + 1
        pushed == Len(jacobsthal_group(prev, top))
    IN  IF len + pushed >= count THEN <<pushed>>
        ELSE <<pushed>> \o jacobsthal_passes(count, len + pushed, curr, curr + 2 * prev)

(***************************************************************************)
(* crates/core/src/lib.rs : binary_search_pos, ford_johnson, rank_items    *)
(*                                                                         *)
(* A comparator is a function value over ordered index pairs; every call   *)
(* is appended to `calls`, so Len(calls) is the number of comparator calls.*)
(***************************************************************************)
\* faulty variant: the two branches of the search exchanged
bs_narrow_flipped(lo, hi, mid, less) ==
    IF less THEN [lo |-> mid + 1, hi |-> hi] ELSE [lo |-> lo, hi |-> mid]

\* if cmp(element, range[mid]) { hi = mid } else { lo = mid + 1 }
bs_narrow(lo, hi, mid, less) ==
    IF less THEN [lo |-> lo, hi |-> mid] ELSE [lo |-> mid + 1, hi |-> hi]

RECURSIVE bs_loop(_, _, _, _, _, _)
bs_loop(range, element, cmp, lo, hi, calls) ==
    IF lo < hi
    THEN LET mid == lo + (hi - lo) \div 2
             nx  == bs_narrow(lo, hi, mid, cmp[<<element, At(range, mid)>>])
         IN  bs_loop(range, element, cmp, nx.lo, nx.hi,
                     Append(calls, <<element, At(range, mid)>>))
    ELSE [pos |-> lo, calls |-> calls]

binary_search_pos(range, element, cmp, calls) ==
    bs_loop(range, element, cmp, 0, Len(range), calls)

RECURSIVE fj_pair_loop(_, _, _, _, _, _, _)
\* for i in 0..num_pairs { ... }
fj_pair_loop(elements, cmp, i, num_pairs, mains, partner_of, calls) ==
    IF i < num_pairs
    THEN LET a == At(elements, 2 * i)
             b == At(elements, 2 * i + 1)
             c == Append(calls, <<a, b>>)
         IN  IF cmp[<<a, b>>]
             THEN fj_pair_loop(elements, cmp, i + 1, num_pairs,
                               Append(mains, b), [partner_of EXCEPT ![b] = a], c)
             ELSE fj_pair_loop(elements, cmp, i + 1, num_pairs,
                               Append(mains, a), [partner_of EXCEPT ![a] = b], c)
    ELSE [mains |-> mains, partner_of |-> partner_of, calls |-> calls]

\* let straggler = if n % 2 == 1 { Some(elements[n - 1]) } else { None }
straggler_of(elements) ==
    IF Len(elements) % 2 = 1 THEN Some(At(elements, Len(elements) - 1)) ELSE None

\* chain.push(partner_of[sorted_mains[0]]); chain.extend_from_slice(&sorted_mains)
seed_chain(partner_of, sorted_mains) ==
    <<partner_of[At(sorted_mains, 0)]>> \o sorted_mains

\* faulty variant: the straggler is forgotten
build_pending_no_straggler(partner_of, sorted_mains, straggler) ==
    [k \in 1..(Len(sorted_mains) - 1) |->
        [elem |-> partner_of[sorted_mains[k + 1]], main |-> Some(sorted_mains[k + 1])]]

\* the partners of sorted_mains[1..], each bound by its main, then the straggler
build_pending(partner_of, sorted_mains, straggler) ==
    [k \in 1..(Len(sorted_mains) - 1) |->
        [elem |-> partner_of[sorted_mains[k + 1]], main |-> Some(sorted_mains[k + 1])]]
    \o (IF straggler # None THEN <<[elem |-> straggler[1], main |-> None]>> ELSE <<>>)

RECURSIVE fj_insert_loop(_, _, _, _, _, _, _)
\* for i in jacobsthal_order(pending.len()) { ... }
fj_insert_loop(order, k, pend, chain, cmp, calls, bad) ==
    IF k >= Len(order) \/ bad
    THEN [out |-> chain, calls |-> calls, panic |-> bad]
    ELSE LET p     == At(pend, At(order, k))
             bound == IF p.main # None THEN Position(chain, p.main[1]) ELSE Len(chain)
         IN  IF bound < 0
             THEN [out |-> chain, calls |-> calls, panic |-> TRUE]   \* unwrap() of None
             ELSE LET r == binary_search_pos(SubSeq(chain, 1, bound), p.elem, cmp, calls)
                  IN  fj_insert_loop(order, k + 1, pend,
                                     InsertAt(chain, r.pos, p.elem), cmp, r.calls, bad)

RECURSIVE ford_johnson(_, _, _)
ford_johnson(elements, cmp, calls) ==
    LET n == Len(elements)
    IN  IF n <= 1
        THEN [out |-> elements, calls |-> calls, panic |-> FALSE]
        ELSE LET num_pairs == n \div 2
                 max_elem  == MaxOr0(elements)
                 pr == fj_pair_loop(elements, cmp, 0, num_pairs, <<>>,
                                    [e \in 0..max_elem |-> 0], calls)
                 straggler == straggler_of(elements)
                 rec == ford_johnson(pr.mains, cmp, pr.calls)
             IN  IF rec.panic THEN rec
                 ELSE LET sorted_mains == rec.out
                          chain   == seed_chain(pr.partner_of, sorted_mains)
                          pend    == build_pending(pr.partner_of, sorted_mains, straggler)
                      IN  fj_insert_loop(jacobsthal_order(Len(pend)), 0, pend,
                                         chain, cmp, rec.calls, FALSE)

\* |a, b| better(&items[a], &items[b]) with better = `<` on the values
cmp_of(its) ==
    [p \in (0..(Len(its) - 1)) \X (0..(Len(its) - 1)) |-> At(its, p[1]) < At(its, p[2])]

RECURSIVE take_slots(_, _, _, _)
\* sorted.into_iter().map(|i| slots[i].take().expect(..)).collect()
take_slots(its, sorted, k, taken) ==
    IF k >= Len(sorted) THEN [out |-> <<>>, panic |-> FALSE]
    ELSE LET i == At(sorted, k)
         IN  IF i < 0 \/ i >= Len(its) \/ i \in taken
             THEN [out |-> <<>>, panic |-> TRUE]
             ELSE LET rest == take_slots(its, sorted, k + 1, taken \cup {i})
                  IN  [out |-> <<At(its, i)>> \o rest.out, panic |-> rest.panic]

rank_items(its) ==
    LET n == Len(its)
    IN  IF n <= 1
        THEN [out |-> its, order |-> [k \in 1..n |-> k - 1], calls |-> <<>>, panic |-> FALSE]
        ELSE LET sorted == ford_johnson([k \in 1..n |-> k - 1], cmp_of(its), <<>>)
                 slots  == take_slots(its, sorted.out, 0, {})
             IN  [out |-> slots.out, order |-> sorted.out, calls |-> sorted.calls,
                  panic |-> sorted.panic \/ slots.panic]

(***************************************************************************)
(* crates/core/src/lib.rs : tests::worst_case_comparisons_are_optimal      *)
(***************************************************************************)
\* let optimal = [0, 0, 1, 3, 5, 7, 10, 13, 16]
optimal == <<0, 0, 1, 3, 5, 7, 10, 13, 16>>

\* for w in ranked.windows(2) { assert!(w[0] < w[1]) }
windows_increasing(out) == \A k \in 1..(Len(out) - 1) : out[k] < out[k + 1]

\* the closure handed to permute: one rank_items run on perm
visit_perm(st) ==
    LET r == rank_items(st.items)
    IN  [items  |-> st.items,
         worst  |-> Max2(st.worst, Len(r.calls)),
         failed |-> st.failed \/ r.panic \/ ~windows_increasing(r.out)]

RECURSIVE permute(_, _)
RECURSIVE permute_loop(_, _, _)
\* Heap's algorithm, tests::permute; a failed assert! panics: nothing runs after it
permute(st, k) ==
    IF st.failed THEN st
    ELSE IF k <= 1 THEN visit_perm(st)
    ELSE permute_loop(permute(st, k - 1), k, 0)

permute_loop(st, k, i) ==
    IF st.failed \/ i >= k - 1 THEN st
    ELSE LET sw == [st EXCEPT !.items = Swap(st.items, IF k % 2 = 0 THEN i ELSE 0, k - 1)]
         IN  permute_loop(permute(sw, k - 1), k, i + 1)

\* one iteration of the test's outer loop, for n items
worst_case(n) ==
    permute([items |-> [k \in 1..n |-> k - 1], worst |-> 0, failed |-> FALSE], n)

(***************************************************************************)
(* crates/web/src/stepper.rs : Step, Pending, SearchState, Frame, State    *)
(*                                                                         *)
(* A Frame is one record with the fields of every State variant; the       *)
(* fields a variant does not have keep their default.  The stepper itself  *)
(* is the record [stack, pending, comparisons, done, panic, emitted].      *)
(***************************************************************************)
Compare(a, b) == <<"Compare", a, b>>

DoneStep == <<"Done">>

\* the call did not return: it panicked
PanicStep == <<"Panic">>

PendingPairing(a, b) == [kind |-> "Pairing", a |-> a, b |-> b]

PendingSearch(a, b) == [kind |-> "Search", a |-> a, b |-> b]

SearchState(elem, lo, hi, mid) == [elem |-> elem, lo |-> lo, hi |-> hi, mid |-> mid]

\* Frame::new
Frame_new(elements) ==
    [elements |-> elements, state |-> "Start",
     i |-> 0, num_pairs |-> 0, mains |-> <<>>, partner_of |-> <<>>, straggler |-> None,
     chain |-> <<>>, pending |-> <<>>, order |-> <<>>, order_idx |-> 0, search |-> None,
     result |-> <<>>]

State_Pairing(elements, i, num_pairs, mains, partner_of, straggler) ==
    [Frame_new(elements) EXCEPT !.state = "Pairing", !.i = i, !.num_pairs = num_pairs,
        !.mains = mains, !.partner_of = partner_of, !.straggler = straggler]

State_AwaitMains(elements, partner_of, straggler) ==
    [Frame_new(elements) EXCEPT !.state = "AwaitMains", !.partner_of = partner_of,
        !.straggler = straggler]

State_Insert(elements, chain, pend, order, order_idx, search) ==
    [Frame_new(elements) EXCEPT !.state = "Insert", !.chain = chain, !.pending = pend,
        !.order = order, !.order_idx = order_idx, !.search = search]

State_Done(elements, result) ==
    [Frame_new(elements) EXCEPT !.state = "Done", !.result = result]

InRange(v, k) == 0 <= k /\ k < Len(v)

Last(v) == v[Len(v)]

\* Vec::pop (the vector without its last element)
Popped(v) == SubSeq(v, 1, Len(v) - 1)

Panicked(s, msg) == [s EXCEPT !.panic = msg]

(***************************************************************************)
(* Stepper::new                                                            *)
(***************************************************************************)
\* faulty variant: only n = 0 starts terminated
Stepper_new_zero_only(count) ==
    IF count < 1
    THEN [stack |-> <<>>, pending |-> None, comparisons |-> 0,
          done |-> Some([k \in 1..count |-> k - 1]), panic |-> "", emitted |-> <<>>]
    ELSE [stack |-> <<Frame_new([k \in 1..count |-> k - 1])>>, pending |-> None,
          comparisons |-> 0, done |-> None, panic |-> "", emitted |-> <<>>]

Stepper_new(count) ==
    IF count <= 1
    THEN [stack |-> <<>>, pending |-> None, comparisons |-> 0,
          done |-> Some([k \in 1..count |-> k - 1]), panic |-> "", emitted |-> <<>>]
    ELSE [stack |-> <<Frame_new([k \in 1..count |-> k - 1])>>, pending |-> None,
          comparisons |-> 0, done |-> None, panic |-> "", emitted |-> <<>>]

(***************************************************************************)
(* Stepper::advance_start / advance_pairing / advance_insert               *)
(* Each returns [self, next, step, child]: the stepper after the side      *)
(* effects on self.pending, the frame's next state, the Option<Step> and   *)
(* the Option<Frame> child.                                                *)
(***************************************************************************)
\* let straggler = if n % 2 == 1 { Some(elements[n - 1]) } else { None }
start_straggler(elements) ==
    IF Len(elements) % 2 = 1 THEN Some(At(elements, Len(elements) - 1)) ELSE None

\* faulty variant: partner_of sized max_elem instead of max_elem + 1
advance_start_short_partner_of(elements) ==
    LET len == Len(elements)
    IN  IF len <= 1 THEN State_Done(elements, elements)
        ELSE State_Pairing(elements, 0, len \div 2, <<>>,
                           [e \in 0..(MaxOr0(elements) - 1) |-> 0],
                           start_straggler(elements))

advance_start(elements) ==
    LET len == Len(elements)
    IN  IF len <= 1 THEN State_Done(elements, elements)
        ELSE State_Pairing(elements, 0, len \div 2, <<>>,
                           [e \in 0..MaxOr0(elements) |-> 0], start_straggler(elements))

\* self.pending = Some(p), with the request logged
SetPending(s, p) ==
    [s EXCEPT !.pending = Some(p), !.emitted = Append(s.emitted, <<p.a, p.b>>)]

\* faulty variant: the frame that pushes its child stays in Pairing
advance_pairing_stays_pairing(s, f) ==
    IF f.i < f.num_pairs
    THEN IF ~InRange(f.elements, 2 * f.i + 1)
         THEN [self |-> Panicked(s, "index out of bounds: elements"),
               next |-> f, step |-> None, child |-> None]
         ELSE LET a == At(f.elements, 2 * f.i)
                  b == At(f.elements, 2 * f.i + 1)
              IN  [self  |-> SetPending(s, PendingPairing(a, b)),
                   next  |-> f,
                   step  |-> Some(Compare(a, b)),
                   child |-> None]
    ELSE [self  |-> s,
          next  |-> f,
          step  |-> None,
          child |-> Some(Frame_new(f.mains))]

advance_pairing(s, f) ==
    IF f.i < f.num_pairs
    THEN IF ~InRange(f.elements, 2 * f.i + 1)
         THEN [self |-> Panicked(s, "index out of bounds: elements"),
               next |-> f, step |-> None, child |-> None]
         ELSE LET a == At(f.elements, 2 * f.i)
                  b == At(f.elements, 2 * f.i + 1)
              IN  [self  |-> SetPending(s, PendingPairing(a, b)),
                   next  |-> State_Pairing(f.elements, f.i, f.num_pairs, f.mains,
                                           f.partner_of, f.straggler),
                   step  |-> Some(Compare(a, b)),
                   child |-> None]
    ELSE [self  |-> s,
          next  |-> State_AwaitMains(f.elements, f.partner_of, f.straggler),
          step  |-> None,
          child |-> Some(Frame_new(f.mains))]

\* faulty variant: every search runs over the whole chain
start_search_unbounded(f) ==
    IF f.search # None THEN [search |-> f.search, panic |-> ""]
    ELSE IF ~InRange(f.order, f.order_idx) \/ ~InRange(f.pending, At(f.order, f.order_idx))
    THEN [search |-> None, panic |-> "index out of bounds: pending"]
    ELSE LET p == At(f.pending, At(f.order, f.order_idx))
         IN  [search |-> Some(SearchState(p.elem, 0, Len(f.chain), None)), panic |-> ""]

\* the `if search.is_none()` block of advance_insert: Some(search) or a panic message
start_search(f) ==
    IF f.search # None THEN [search |-> f.search, panic |-> ""]
    ELSE IF ~InRange(f.order, f.order_idx) \/ ~InRange(f.pending, At(f.order, f.order_idx))
    THEN [search |-> None, panic |-> "index out of bounds: pending"]
    ELSE LET p     == At(f.pending, At(f.order, f.order_idx))
             bound == IF p.main # None THEN Position(f.chain, p.main[1]) ELSE Len(f.chain)
         IN  IF bound < 0
             THEN [search |-> None, panic |-> "main must be in chain"]
             ELSE [search |-> Some(SearchState(p.elem, 0, bound, None)), panic |-> ""]

advance_insert(s, f) ==
    IF f.order_idx >= Len(f.order)
    THEN [self |-> s, next |-> State_Done(f.elements, f.chain), step |-> None, child |-> None]
    ELSE LET ss == start_search(f)
         IN  IF ss.panic # ""
             THEN [self |-> Panicked(s, ss.panic), next |-> f, step |-> None, child |-> None]
             ELSE LET search_state == ss.search[1]
                  IN  IF search_state.lo = search_state.hi
                      THEN [self  |-> s,
                            next  |-> State_Insert(f.elements,
                                         InsertAt(f.chain, search_state.lo, search_state.elem),
                                         f.pending, f.order, f.order_idx + 1, None),
                            step  |-> None,
                            child |-> None]
                      ELSE LET mid == search_state.lo
                                      + (search_state.hi - search_state.lo) \div 2
                               a   == search_state.elem
                               b   == At(f.chain, mid)
                           IN  [self  |-> SetPending(s, PendingSearch(a, b)),
                                next  |-> State_Insert(f.elements, f.chain, f.pending,
                                             f.order, f.order_idx,
                                             Some([search_state EXCEPT !.mid = Some(mid)])),
                                step  |-> Some(Compare(a, b)),
                                child |-> None]

(***************************************************************************)
(* Stepper::advance_frame: the top frame is popped, advanced by one        *)
(* micro-step and pushed back, followed by the child if there is one       *)
(***************************************************************************)
advance_frame(s) ==
    IF s.stack = <<>> THEN [st |-> s, step |-> None]      \* self.stack.pop()?
    ELSE LET f    == Last(s.stack)
             rest == [s EXCEPT !.stack = Popped(s.stack)]
         IN  IF f.state = "AwaitMains"
             THEN [st |-> Panicked(s, "unreachable: awaiting child frame result"),
                   step |-> None]
             ELSE LET r == CASE f.state = "Start" ->
                                  [self |-> rest, next |-> advance_start(f.elements),
                                   step |-> None, child |-> None]
                             [] f.state = "Pairing" -> advance_pairing(rest, f)
                             [] f.state = "Insert" -> advance_insert(rest, f)
                             [] f.state = "Done" ->
                                  [self |-> rest, next |-> f, step |-> None, child |-> None]
                  IN  IF r.self.panic # "" THEN [st |-> r.self, step |-> None]
                      ELSE [st   |-> [r.self EXCEPT !.stack =
                                         Append(r.self.stack, r.next) \o r.child],
                            step |-> r.step]

(***************************************************************************)
(* Stepper::propagate_result, Stepper::pop_done_frame                      *)
(***************************************************************************)
\* faulty variant: the partner of the first main is pushed behind the mains
propagate_chain_partner_last(partner_of, result) == result \o <<partner_of[At(result, 0)]>>

\* chain.push(partner_of[result[0]]); chain.extend_from_slice(&result)
propagate_chain(partner_of, result) == <<partner_of[At(result, 0)]>> \o result

\* faulty variant: no partner is bound by its main
propagate_pending_unbound(partner_of, result, straggler) ==
    [k \in 1..(Len(result) - 1) |-> [elem |-> partner_of[At(result, k)], main |-> None]]
    \o (IF straggler # None THEN <<[elem |-> straggler[1], main |-> None]>> ELSE <<>>)

\* the partners of result[1..], each bound by its main, then the straggler
propagate_pending(partner_of, result, straggler) ==
    [k \in 1..(Len(result) - 1) |->
        [elem |-> partner_of[At(result, k)], main |-> Some(At(result, k))]]
    \o (IF straggler # None THEN <<[elem |-> straggler[1], main |-> None]>> ELSE <<>>)

\* the stepper has already lost its top frame, whose result this is
propagate_result(s, result) ==
    IF s.stack = <<>> THEN [s EXCEPT !.done = Some(result)]
    ELSE LET parent == Last(s.stack)
         IN  IF parent.state # "AwaitMains"
             THEN Panicked(s, "unreachable: only await-mains can receive a result")
             ELSE IF result = <<>>
                     \/ \E k \in 1..Len(result) : result[k] \notin DOMAIN parent.partner_of
             THEN Panicked(s, "index out of bounds: partner_of")
             ELSE LET chain == propagate_chain(parent.partner_of, result)
                      pend  == propagate_pending(parent.partner_of, result, parent.straggler)
                      order == jacobsthal_order(Len(pend))
                  IN  [s EXCEPT !.stack[Len(s.stack)] =
                          State_Insert(parent.elements, chain, pend, order, 0, None)]

\* [st, popped]: popped is the bool pop_done_frame returns
pop_done_frame(s) ==
    IF s.stack # <<>> /\ Last(s.stack).state = "Done"
    THEN [st |-> propagate_result([s EXCEPT !.stack = Popped(s.stack)],
                                  Last(s.stack).result),
          popped |-> TRUE]
    ELSE [st |-> s, popped |-> FALSE]

(***************************************************************************)
(* Stepper::pending_step, step, answer, take_order, comparisons_made       *)
(* step and answer return [st, ret]: the stepper afterwards and the Step.  *)
(***************************************************************************)
\* faulty variant: the request is returned with its two sides exchanged
pending_step_swapped(s) ==
    IF s.pending = None THEN None ELSE Some(Compare(s.pending[1].b, s.pending[1].a))

pending_step(s) ==
    IF s.pending = None THEN None ELSE Some(Compare(s.pending[1].a, s.pending[1].b))

RECURSIVE step_loop(_)
\* the `loop` of step; `p` and `r` are bound as the elements of singleton sets,
\* so each is computed once, like the local variables of the loop body
step_loop(s) ==
    IF s.panic # "" THEN [st |-> s, ret |-> PanicStep]
    ELSE IF s.done # None THEN [st |-> s, ret |-> DoneStep]
    ELSE IF s.stack = <<>> THEN [st |-> [s EXCEPT !.done = Some(<<>>)], ret |-> DoneStep]
    ELSE CHOOSE out \in
            {IF p.popped THEN step_loop(p.st)
             ELSE CHOOSE res \in
                     {IF r.st.panic = "" /\ r.step # None
                      THEN [st |-> r.st, ret |-> r.step[1]]
                      ELSE step_loop(r.st) : r \in {advance_frame(s)}} : TRUE
             : p \in {pop_done_frame(s)}} : TRUE

\* faulty variant: every call of step is counted as a comparison
step_counts(s) ==
    LET r == IF pending_step(s) # None THEN [st |-> s, ret |-> pending_step(s)[1]]
             ELSE step_loop(s)
    IN  [st |-> [r.st EXCEPT !.comparisons = r.st.comparisons + 1], ret |-> r.ret]

step(s) ==
    IF pending_step(s) # None THEN [st |-> s, ret |-> pending_step(s)[1]]
    ELSE step_loop(s)

\* faulty variant: the roles exchanged, an answer of true makes a the main
answer_pairing_swapped(s, better_is_a) ==
    IF s.stack = <<>> THEN Panicked(s, "pairing answer requires active frame")
    ELSE LET f == Last(s.stack)
         IN  IF f.state # "Pairing"
             THEN Panicked(s, "unreachable: pairing answer requires pairing state")
             ELSE IF ~InRange(f.elements, 2 * f.i + 1)
             THEN Panicked(s, "index out of bounds: elements")
             ELSE LET a == At(f.elements, 2 * f.i)
                      b == At(f.elements, 2 * f.i + 1)
                  IN  IF (IF better_is_a THEN a ELSE b) \notin DOMAIN f.partner_of
                      THEN Panicked(s, "index out of bounds: partner_of")
                      ELSE [s EXCEPT !.stack[Len(s.stack)] =
                              IF better_is_a
                              THEN [f EXCEPT !.mains = Append(f.mains, a),
                                             !.partner_of[a] = b, !.i = f.i + 1]
                              ELSE [f EXCEPT !.mains = Append(f.mains, b),
                                             !.partner_of[b] = a, !.i = f.i + 1]]

\* the Pending::Pairing arm of answer
answer_pairing(s, better_is_a) ==
    IF s.stack = <<>> THEN Panicked(s, "pairing answer requires active frame")
    ELSE LET f == Last(s.stack)
         IN  IF f.state # "Pairing"
             THEN Panicked(s, "unreachable: pairing answer requires pairing state")
             ELSE IF ~InRange(f.elements, 2 * f.i + 1)
             THEN Panicked(s, "index out of bounds: elements")
             ELSE LET a == At(f.elements, 2 * f.i)
                      b == At(f.elements, 2 * f.i + 1)
                  IN  IF (IF better_is_a THEN b ELSE a) \notin DOMAIN f.partner_of
                      THEN Panicked(s, "index out of bounds: partner_of")
                      ELSE [s EXCEPT !.stack[Len(s.stack)] =
                              IF better_is_a
                              THEN [f EXCEPT !.mains = Append(f.mains, b),
                                             !.partner_of[b] = a, !.i = f.i + 1]
                              ELSE [f EXCEPT !.mains = Append(f.mains, a),
                                             !.partner_of[a] = b, !.i = f.i + 1]]

\* faulty variant: lo = mid instead of lo = mid + 1
search_narrow_keeps_mid(search_state, mid, better_is_a) ==
    IF better_is_a
    THEN [search_state EXCEPT !.hi = mid, !.mid = None]
    ELSE [search_state EXCEPT !.lo = mid, !.mid = None]

\* faulty variant: the two branches of the search exchanged
search_narrow_flipped(search_state, mid, better_is_a) ==
    IF better_is_a
    THEN [search_state EXCEPT !.lo = mid + 1, !.mid = None]
    ELSE [search_state EXCEPT !.hi = mid, !.mid = None]

\* if better_is_a { hi = mid } else { lo = mid + 1 }, with mid taken
search_narrow(search_state, mid, better_is_a) ==
    IF better_is_a
    THEN [search_state EXCEPT !.hi = mid, !.mid = None]
    ELSE [search_state EXCEPT !.lo = mid + 1, !.mid = None]

\* the Pending::Search arm of answer
answer_search(s, better_is_a) ==
    IF s.stack = <<>> THEN Panicked(s, "search answer requires active frame")
    ELSE LET f == Last(s.stack)
         IN  IF f.state # "Insert"
             THEN Panicked(s, "unreachable: search answer requires insert state")
             ELSE IF f.search = None
             THEN Panicked(s, "search state must exist for comparison")
             ELSE IF f.search[1].mid = None
             THEN Panicked(s, "mid must be set")
             ELSE LET ss == search_narrow(f.search[1], f.search[1].mid[1], better_is_a)
                  IN  IF ss.lo = ss.hi
                      THEN IF ss.lo > Len(f.chain)
                           THEN Panicked(s, "insertion index out of bounds")
                           ELSE [s EXCEPT !.stack[Len(s.stack)] =
                                   [f EXCEPT !.chain = InsertAt(f.chain, ss.lo, ss.elem),
                                             !.search = None,
                                             !.order_idx = f.order_idx + 1]]
                      ELSE [s EXCEPT !.stack[Len(s.stack)] = [f EXCEPT !.search = Some(ss)]]

\* faulty variant: the answer is counted before the pending comparison is looked at
answer_counts_first(s, better_is_a) ==
    IF s.pending = None THEN step([s EXCEPT !.comparisons = s.comparisons + 1])
    ELSE LET taken   == [s EXCEPT !.pending = None, !.comparisons = s.comparisons + 1]
             applied == IF s.pending[1].kind = "Pairing"
                        THEN answer_pairing(taken, better_is_a)
                        ELSE answer_search(taken, better_is_a)
         IN  CHOOSE out \in {step(after) : after \in {applied}} : TRUE

\* faulty variant: only the answers of a binary search are counted
answer_counts_search_only(s, better_is_a) ==
    IF s.pending = None THEN step(s)
    ELSE LET taken   == [s EXCEPT !.pending = None]
             counted == [taken EXCEPT !.comparisons = s.comparisons + 1]
             applied == IF s.pending[1].kind = "Pairing"
                        THEN answer_pairing(taken, better_is_a)
                        ELSE answer_search(counted, better_is_a)
         IN  CHOOSE out \in {step(after) : after \in {applied}} : TRUE

\* faulty variant: an answer with nothing pending is a failed expect
answer_requires_pending(s, better_is_a) ==
    IF s.pending = None
    THEN [st |-> Panicked(s, "no comparison is pending"), ret |-> PanicStep]
    ELSE LET taken   == [s EXCEPT !.pending = None, !.comparisons = s.comparisons + 1]
             applied == IF s.pending[1].kind = "Pairing"
                        THEN answer_pairing(taken, better_is_a)
                        ELSE answer_search(taken, better_is_a)
         IN  CHOOSE out \in {step(after) : after \in {applied}} : TRUE

answer(s, better_is_a) ==
    IF s.pending = None THEN step(s)
    ELSE LET taken   == [s EXCEPT !.pending = None, !.comparisons = s.comparisons + 1]
             applied == IF s.pending[1].kind = "Pairing"
                        THEN answer_pairing(taken, better_is_a)
                        ELSE answer_search(taken, better_is_a)
         IN  CHOOSE out \in {step(after) : after \in {applied}} : TRUE

\* faulty variant: take_order also drops the pending comparison
take_order_clears_pending(s) ==
    [st |-> [s EXCEPT !.done = None, !.pending = None], ret |-> s.done]

\* self.done.take()
take_order(s) == [st |-> [s EXCEPT !.done = None], ret |-> s.done]

comparisons_made(s) == s.comparisons

(***************************************************************************)
(* crates/web/src/main.rs : derive_state, the replay of an answer history  *)
(***************************************************************************)
RECURSIVE derive_loop(_, _, _, _)
\* for &answer in answers { if last_step == Step::Done { break; } last_step = stepper.answer(answer); }
derive_loop(stepper, last_step, history, k) ==
    IF k >= Len(history) \/ last_step = DoneStep \/ last_step = PanicStep
    THEN [stepper |-> stepper, last_step |-> last_step]
    ELSE LET r == answer(stepper, At(history, k))
         IN  derive_loop(r.st, r.ret, history, k + 1)

\* the stepper and the last step derive_state has when its loop ends
derive_run(count, history) ==
    LET first == step(Stepper_new(count))
    IN  derive_loop(first.st, first.ret, history, 0)

\* RankState {current, ranking, comparisons}
derive_state(count, history) ==
    LET run == derive_run(count, history)
    IN  IF run.last_step[1] = "Compare"
        THEN [current     |-> Some(<<run.last_step[2], run.last_step[3]>>),
              ranking     |-> None,
              comparisons |-> comparisons_made(run.stepper)]
        ELSE [current     |-> None,
              ranking     |-> take_order(run.stepper).ret,
              comparisons |-> comparisons_made(run.stepper)]

\* App: the width of the progress bar,
\* if est > 0 { 100 * state.get().comparisons / est } else { 100 }
progress_pct(made, est) == IF est > 0 THEN (100 * made) \div est ELSE 100

(***************************************************************************)
(* The stepper as a state machine: a driver owns one Stepper::new(n) and   *)
(* calls step(), answer(bool) and take_order() in any order.               *)
(***************************************************************************)
Self ==
    [stack |-> stack, pending |-> pending, comparisons |-> comparisons, done |-> done,
     panic |-> panic, emitted |-> emitted]

Becomes(st) ==
    /\ stack' = st.stack
    /\ pending' = st.pending
    /\ comparisons' = st.comparisons
    /\ done' = st.done
    /\ panic' = st.panic
    /\ emitted' = st.emitted

\* the stepper variables hold Stepper::new(count), on which nothing was called yet
FreshStepper(count) ==
    /\ n_items = count
    /\ stack = Stepper_new(count).stack
    /\ pending = Stepper_new(count).pending
    /\ comparisons = Stepper_new(count).comparisons
    /\ done = Stepper_new(count).done
    /\ panic = Stepper_new(count).panic
    /\ emitted = Stepper_new(count).emitted
    /\ answers = <<>>
    /\ last_call = "new"
    /\ ret = None
    /\ took = None
    /\ handed = <<>>

\* rank_items has not returned
NoRanked == [out |-> <<>>, order |-> <<>>, calls |-> <<>>, panic |-> FALSE]

\* no rank_items call and no test is running
BatchIdle ==
    /\ items = <<>>
    /\ bphase = "idle"
    /\ ranked = NoRanked
    /\ worst = <<>>

NoCall == [fn |-> "none", arg |-> 0]

\* no pure function call is being made
PureIdle ==
    /\ fn_call = NoCall
    /\ fn_result = None

Init ==
    /\ \E count \in 0..MaxN : FreshStepper(count)
    /\ BatchIdle
    /\ PureIdle

Step ==
    /\ panic = ""
    /\ LET r == step(Self)
       IN  /\ Becomes(r.st)
           /\ ret' = Some(r.ret)
    /\ last_call' = "step"
    /\ UNCHANGED <<n_items, answers, took, handed, bvars, pvars>>

Answer(better_is_a) ==
    /\ panic = ""
    /\ LET r == answer(Self, better_is_a)
       IN  /\ Becomes(r.st)
           /\ ret' = Some(r.ret)
    /\ answers' = IF pending # None THEN Append(answers, better_is_a) ELSE answers
    /\ last_call' = "answer"
    /\ UNCHANGED <<n_items, took, handed, bvars, pvars>>

TakeOrder ==
    /\ panic = ""
    /\ Len(handed) < MaxHanded
    /\ LET r == take_order(Self)
       IN  /\ Becomes(r.st)
           /\ took' = r.ret
           /\ handed' = IF r.ret # None THEN Append(handed, r.ret[1]) ELSE handed
    /\ last_call' = "take_order"
    /\ UNCHANGED <<n_items, answers, ret, bvars, pvars>>

Next ==
    \/ Step
    \/ \E better_is_a \in BOOLEAN : Answer(better_is_a)
    \/ TakeOrder

Spec == Init /\ [][Next]_vars

\* the stepper under a driver that goes on answering: on_a / on_b are clicked
\* again and again
SpecLive == Init /\ [][Next]_vars /\ WF_vars(\E better_is_a \in BOOLEAN : Answer(better_is_a))

(***************************************************************************)
(* The stepper driven by a user whose preferences are a strict total order *)
(* of the items: `items` holds the rank of every item (smaller is better), *)
(* and every pending comparison is answered by it.                         *)
(***************************************************************************)
\* the strict total orders of count items: item k has rank v[k + 1]
Rankings(count) ==
    {v \in [1..count -> 0..(count - 1)] : \A j, k \in 1..count : j < k => v[j] # v[k]}

\* the user prefers a to b
prefers(a, b) == At(items, a) < At(items, b)

InitOrdered ==
    /\ \E count \in 0..MaxRanked : FreshStepper(count) /\ items \in Rankings(count)
    /\ bphase = "idle"
    /\ ranked = NoRanked
    /\ worst = <<>>
    /\ PureIdle

\* on_a / on_b: the user answers the comparison shown; with none shown
\* answer() takes any value
AnswerTruly ==
    \E better_is_a \in BOOLEAN :
        /\ pending # None => better_is_a = prefers(pending[1].a, pending[1].b)
        /\ Answer(better_is_a)

NextOrdered ==
    \/ Step
    \/ AnswerTruly
    \/ TakeOrder

SpecOrdered == InitOrdered /\ [][NextOrdered]_vars

(***************************************************************************)
(* The batch sorter as a state machine: an input list is drawn, rank_items *)
(* runs on it; independently the worst-case test runs its outer loop.      *)
(***************************************************************************)
\* every list of at most MaxLen values; with `<` these give every strict weak
\* ordering of up to MaxLen items (equal values are ties)
Inputs == UNION {[1..n -> 0..(n - 1)] : n \in 0..MaxLen}

InitBatch ==
    /\ bphase = "input"
    /\ items \in Inputs
    /\ ranked = NoRanked
    /\ worst = <<>>
    /\ FreshStepper(0)
    /\ PureIdle

InitTest ==
    /\ \/ bphase = "input" /\ items \in Inputs
       \/ bphase = "test" /\ items = <<>>
    /\ ranked = NoRanked
    /\ worst = <<>>
    /\ FreshStepper(0)
    /\ PureIdle

\* one call of rank_items(items, |a, b| a < b)
RankItems ==
    /\ bphase = "input"
    /\ ranked' = rank_items(items)
    /\ bphase' = "ranked"
    /\ UNCHANGED <<items, worst, svars, dvars, pvars>>

\* one iteration of `for (n, &opt) in optimal.iter().enumerate()`
WorstCaseTest ==
    /\ bphase = "test"
    /\ Len(worst) < Len(optimal)
    /\ LET w == worst_case(Len(worst))
       IN  worst' = Append(worst, [worst |-> w.worst, failed |-> w.failed])
    /\ UNCHANGED <<items, bphase, ranked, svars, dvars, pvars>>

NextBatch == RankItems

NextTest == RankItems \/ WorstCaseTest

\* rank_items on every input list
SpecBatch == InitBatch /\ [][NextBatch]_vars

\* rank_items on every input list, and the worst-case test over all permutations
SpecTest == InitTest /\ [][NextTest]_vars

(***************************************************************************)
(* crates/web/src/main.rs : the answer history in the URL hash.  A string  *)
(* is a sequence of one-character strings.                                 *)
(***************************************************************************)
\* characters other than 'a' and 'b' that a hash may hold
OtherChars == {"c", "A", "B", "!", ","}

\* build_hash: |&b| if b { 'a' } else { 'b' }
encode_answer(b) == IF b THEN "a" ELSE "b"

\* build_hash: answers.iter().map(..).collect()
answers_part(history) == [k \in 1..Len(history) |-> encode_answer(history[k])]

\* faulty variant: the match also accepts upper case
decode_answer_any_case(c) ==
    IF c \in {"a", "A"} THEN Some(TRUE) ELSE IF c \in {"b", "B"} THEN Some(FALSE) ELSE None

\* parse_hash: match c { 'a' => Some(true), 'b' => Some(false), _ => None }
decode_answer(c) ==
    IF c = "a" THEN Some(TRUE) ELSE IF c = "b" THEN Some(FALSE) ELSE None

RECURSIVE parse_answers(_)
\* parse_hash: answers_part.chars().filter_map(..).collect()
parse_answers(part) ==
    IF part = <<>> THEN <<>> ELSE decode_answer(Head(part)) \o parse_answers(Tail(part))

(***************************************************************************)
(* The pure functions as a state machine: a call is drawn, the function is *)
(* applied to it.                                                          *)
(***************************************************************************)
Histories == UNION {[1..k -> BOOLEAN] : k \in 0..MaxAnswers}

Junk == UNION {[1..k -> OtherChars] : k \in 1..MaxJunk}

FnCalls ==
    {[fn |-> "estimate_turns", arg |-> k] : k \in 0..MaxTurnsArg}
    \cup {[fn |-> "jacobsthal_order", arg |-> k] : k \in 0..MaxCount}
    \cup {[fn |-> "hash", arg |-> [history |-> h, junk |-> j, at |-> k]] :
              h \in Histories, j \in Junk, k \in 0..MaxAnswers}

InitFn ==
    /\ fn_call \in FnCalls
    /\ fn_call.fn = "hash" => fn_call.arg.at <= Len(fn_call.arg.history)
    /\ fn_result = None
    /\ BatchIdle
    /\ FreshStepper(0)

\* estimate_turns(n), and estimate_turns(n + 1) next to it
EstimateTurns ==
    /\ fn_call.fn = "estimate_turns"
    /\ fn_result = None
    /\ fn_result' = Some([turns |-> estimate_turns(fn_call.arg),
                          next  |-> estimate_turns(fn_call.arg + 1)])
    /\ UNCHANGED <<fn_call, bvars, svars, dvars>>

\* jacobsthal_order(count)
JacobsthalOrder ==
    /\ fn_call.fn = "jacobsthal_order"
    /\ fn_result = None
    /\ fn_result' = Some([order  |-> jacobsthal_order(fn_call.arg),
                          passes |-> IF fn_call.arg = 0 THEN <<>>
                                     ELSE jacobsthal_passes(fn_call.arg, 0, 1, 3)])
    /\ UNCHANGED <<fn_call, bvars, svars, dvars>>

\* the answers of build_hash read back by parse_hash, as written and with
\* foreign characters inserted at one place
HashAnswers ==
    /\ fn_call.fn = "hash"
    /\ fn_result = None
    /\ LET encoded == answers_part(fn_call.arg.history)
           noisy   == SubSeq(encoded, 1, fn_call.arg.at) \o fn_call.arg.junk
                      \o SubSeq(encoded, fn_call.arg.at + 1, Len(encoded))
       IN  fn_result' = Some([encoded |-> encoded,
                              decoded |-> parse_answers(encoded),
                              noisy |-> noisy,
                              decoded_noisy |-> parse_answers(noisy)])
    /\ UNCHANGED <<fn_call, bvars, svars, dvars>>

NextFn == EstimateTurns \/ JacobsthalOrder \/ HashAnswers

SpecFn == InitFn /\ [][NextFn]_vars

(***************************************************************************)
(* crates/web/src/main.rs : the full URL hash, items and answers           *)
(***************************************************************************)
\* the characters an item is drawn from: the two answer letters, the two
\* separators of the hash and the escape character
ItemChars == {"a", "b", "!", ",", "%"}

\* js_sys::encode_uri_component is encodeURIComponent: it leaves letters,
\* digits and - _ . ! ~ * ' ( ) as they are
UriUnreserved == {"a", "b", "!"}

\* the two hexadecimal digits of the UTF-8 byte of each character
HexOf ==
    [c \in ItemChars |->
        CASE c = "a" -> <<"6", "1">>
          [] c = "b" -> <<"6", "2">>
          [] c = "!" -> <<"2", "1">>
          [] c = "," -> <<"2", "C">>
          [] c = "%" -> <<"2", "5">>]

\* encodeURIComponent on one character: every other character becomes % and
\* the digits of its byte
encode_char(c) == IF c \in UriUnreserved THEN <<c>> ELSE <<"%">> \o HexOf[c]

RECURSIVE encode_uri_component(_)
\* js_sys::encode_uri_component(s).into()
encode_uri_component(str) ==
    IF str = <<>> THEN <<>>
    ELSE encode_char(Head(str)) \o encode_uri_component(Tail(str))

RECURSIVE uri_decode(_)
\* decodeURIComponent: % and two digits become the character of that byte;
\* a % that is not followed by the digits of a character is a URIError
uri_decode(str) ==
    IF str = <<>> THEN [ok |-> TRUE, text |-> <<>>]
    ELSE IF Head(str) # "%"
    THEN LET rest == uri_decode(Tail(str))
         IN  [ok |-> rest.ok, text |-> <<Head(str)>> \o rest.text]
    ELSE IF Len(str) < 3 \/ ~\E c \in ItemChars : HexOf[c] = SubSeq(str, 2, 3)
    THEN [ok |-> FALSE, text |-> <<>>]
    ELSE LET rest == uri_decode(SubSeq(str, 4, Len(str)))
         IN  [ok   |-> rest.ok,
              text |-> <<CHOOSE c \in ItemChars : HexOf[c] = SubSeq(str, 2, 3)>>
                       \o rest.text]

\* js_sys::decode_uri_component(s).map_or_else(|_| s.to_string(), String::from)
decode_uri_component(str) ==
    LET decoded == uri_decode(str)
    IN  IF decoded.ok THEN decoded.text ELSE str

RECURSIVE join_comma(_)
\* .collect::<Vec<_>>().join(",")
join_comma(parts) ==
    IF parts = <<>> THEN <<>>
    ELSE IF Len(parts) = 1 THEN parts[1]
    ELSE parts[1] \o <<",">> \o join_comma(Tail(parts))

\* the first place of character c in str, 0 when there is none
first_index(str, c) ==
    IF \E k \in 1..Len(str) : str[k] = c
    THEN CHOOSE k \in 1..Len(str) : str[k] = c /\ \A j \in 1..(k - 1) : str[j] # c
    ELSE 0

RECURSIVE split_comma(_)
\* items_part.split(',')
split_comma(str) ==
    IF first_index(str, ",") = 0 THEN <<str>>
    ELSE <<SubSeq(str, 1, first_index(str, ",") - 1)>>
         \o split_comma(SubSeq(str, first_index(str, ",") + 1, Len(str)))

\* hash.split_once('!')
split_once_bang(str) ==
    IF first_index(str, "!") = 0 THEN None
    ELSE Some(<<SubSeq(str, 1, first_index(str, "!") - 1),
                SubSeq(str, first_index(str, "!") + 1, Len(str))>>)

\* hash.strip_prefix('#').unwrap_or(&hash)
strip_prefix_hash(str) == IF str # <<>> /\ Head(str) = "#" THEN Tail(str) ELSE str

\* items_part.split(',').map(decode_uri_component).filter(|s| !s.is_empty())
parse_items(items_part) ==
    SelectSeq([k \in 1..Len(split_comma(items_part)) |->
                   decode_uri_component(split_comma(items_part)[k])],
              LAMBDA piece : piece # <<>>)

\* parse_hash, on the value of window().location().hash()
parse_hash(location_hash) ==
    LET hash == strip_prefix_hash(location_hash)
    IN  IF hash = <<>> THEN [items |-> <<>>, answers |-> <<>>]
        ELSE LET parts == IF split_once_bang(hash) # None
                          THEN split_once_bang(hash)[1]
                          ELSE <<hash, <<>>>>
             IN  [items |-> parse_items(parts[1]), answers |-> parse_answers(parts[2])]

\* build_hash(items, answers)
build_hash(item_list, history) ==
    LET items_part == join_comma([k \in 1..Len(item_list) |->
                                      encode_uri_component(item_list[k])])
    IN  IF history = <<>> THEN items_part
        ELSE items_part \o <<"!">> \o answers_part(history)

\* push_hash_full: format!("#{hash}") is the fragment that location().hash()
\* gives back
pushed_hash(item_list, history) == <<"#">> \o build_hash(item_list, history)

(***************************************************************************)
(* The URL hash as a state machine: a hash is built from items and answers *)
(* and read back, or a hash typed into the address bar is read.            *)
(***************************************************************************)
\* the non-empty items
ItemStrings == UNION {[1..k -> ItemChars] : k \in 1..MaxItemLen}

\* the non-empty lists of non-empty items
ItemLists == UNION {[1..k -> ItemStrings] : k \in 1..MaxItems}

\* hashes without escapes, as location().hash() may hold them
TypedHashes == UNION {[1..k -> {"#", "!", ",", "a", "b"}] : k \in 0..MaxHashLen}

HashCalls ==
    {[fn |-> "push_hash_full", arg |-> [items |-> l, history |-> h, typed |-> <<>>]] :
         l \in ItemLists, h \in Histories}
    \cup {[fn |-> "parse_hash", arg |-> [items |-> <<>>, history |-> <<>>, typed |-> t]] :
              t \in TypedHashes}

InitHash ==
    /\ fn_call \in HashCalls
    /\ fn_result = None
    /\ BatchIdle
    /\ FreshStepper(0)

\* push_hash_full(items, answers), then parse_hash() on the hash it pushed
PushAndParse ==
    /\ fn_call.fn = "push_hash_full"
    /\ fn_result = None
    /\ fn_result' = Some([hash   |-> build_hash(fn_call.arg.items, fn_call.arg.history),
                          parsed |-> parse_hash(pushed_hash(fn_call.arg.items,
                                                            fn_call.arg.history))])
    /\ UNCHANGED <<fn_call, bvars, svars, dvars>>

\* parse_hash() on a hash that was typed
ParseHash ==
    /\ fn_call.fn = "parse_hash"
    /\ fn_result = None
    /\ fn_result' = Some([hash   |-> strip_prefix_hash(fn_call.arg.typed),
                          parsed |-> parse_hash(fn_call.arg.typed)])
    /\ UNCHANGED <<fn_call, bvars, svars, dvars>>

NextHash == PushAndParse \/ ParseHash

SpecHash == InitHash /\ [][NextHash]_vars

(***************************************************************************)
(* Claims about the batch sorter                                           *)
(***************************************************************************)
Occurrences(v, x) == Cardinality({k \in 1..Len(v) : v[k] = x})

IsPermutationOfIndices(order, n) ==
    /\ Len(order) = n
    /\ \A i \in 0..(n - 1) : Occurrences(order, i) = 1

HasTie(v) == \E j, k \in 1..Len(v) : j < k /\ v[j] = v[k]

\* C1: rank_items never panics and returns a permutation of its input: the
\* internal ford_johnson order holds every index 0..n-1 exactly once, so every
\* value occurs in the output as often as in the input.
C1_OutputIsPermutation ==
    bphase = "ranked" =>
        /\ ~ranked.panic
        /\ IsPermutationOfIndices(ranked.order, Len(items))
        /\ Len(ranked.out) = Len(items)
        /\ \A x \in 0..MaxLen : Occurrences(ranked.out, x) = Occurrences(items, x)

\* a list of at least four items with a tie was ranked and came out rearranged
C1_Witness ==
    /\ bphase = "ranked"
    /\ Len(items) >= 4
    /\ HasTie(items)
    /\ ranked.out # items

\* C2: the output is ordered under the comparator: no later element is
\* better (smaller) than an earlier one, and when the values are distinct
\* the output is strictly increasing.
C2_OutputIsOrdered ==
    bphase = "ranked" =>
        /\ \A i, j \in 1..Len(ranked.out) : i < j => ~(ranked.out[j] < ranked.out[i])
        /\ ~HasTie(items) => windows_increasing(ranked.out)

\* a list with ties that was not already ordered has been ranked, with insertions
\* at both levels of the recursion (n >= 5)
C2_Witness ==
    /\ bphase = "ranked"
    /\ Len(items) >= 5
    /\ HasTie(items)
    /\ \E k \in 1..(Len(items) - 1) : items[k + 1] < items[k]
    /\ \E k \in 1..(Len(items) - 1) : ranked.out[k] = ranked.out[k + 1]

\* C3: one run of rank_items on n items calls the comparator at most
\* estimate_turns(n) times; this covers every input list with ties up to
\* MaxLen and, through the test's maximum, every permutation of up to 8 items.
C3_CountWithinEstimate ==
    /\ bphase = "ranked" => Len(ranked.calls) <= estimate_turns(Len(items))
    /\ \A k \in 1..Len(worst) : worst[k].worst <= estimate_turns(k - 1)

\* a run that used the whole estimate, and the test has covered 8 items
C3_Witness ==
    \/ /\ bphase = "ranked"
       /\ Len(items) >= 4
       /\ Len(ranked.calls) = estimate_turns(Len(items))
    \/ /\ Len(worst) = Len(optimal)
       /\ worst[Len(worst)].worst > 0

\* C4: for each n from 0 to 8 the maximum number of comparator calls over all
\* permutations of 0..n-1 is exactly optimal[n] (7 for n = 5), and every
\* ranked permutation came out strictly increasing.
C4_WorstCaseIsOptimal ==
    \A k \in 1..Len(worst) :
        /\ worst[k].worst = optimal[k]
        /\ ~worst[k].failed

\* the test has finished all nine values of n
C4_Witness ==
    /\ Len(worst) = 9
    /\ worst[6].worst = 7

(***************************************************************************)
(* Claims about the stepper                                                *)
(***************************************************************************)
Identity(count) == [k \in 1..count |-> k - 1]

\* C5: replay determinism.  Whatever calls the driver has made on its
\* stepper, a second, fresh stepper driven by derive_state with the accepted
\* answer history emits the same Compare requests and ends with the same
\* current step, the same comparisons_made() and the same take_order() result.
C5_ReplayDeterminism ==
    (ret # None /\ panic = "") =>
        LET run == derive_run(n_items, answers)
            rs  == derive_state(n_items, answers)
        IN  /\ run.last_step = ret[1]
            /\ run.stepper.emitted = emitted
            /\ rs.comparisons = comparisons
            /\ rs.current = (IF ret[1] = DoneStep THEN None
                             ELSE Some(<<ret[1][2], ret[1][3]>>))
            /\ handed = <<>> => rs.ranking = done
            /\ handed # <<>> => rs.ranking = Some(handed[1])

\* a sort of at least five items was driven to Done with answers of both
\* kinds, and its order was taken
C5_Witness ==
    /\ n_items >= 5
    /\ ret = Some(DoneStep)
    /\ handed # <<>>
    /\ \E j, k \in 1..Len(answers) : answers[j] /\ ~answers[k]
    /\ Len(answers) >= 6

\* C6: step() is idempotent: from every reachable state, a second step()
\* right after a first returns the same Step and changes nothing.
C6_StepIdempotent ==
    panic = "" =>
        LET first  == step(Self)
            second == step(first.st)
        IN  /\ second.ret = first.ret
            /\ second.st = first.st
            /\ comparisons_made(second.st) = comparisons_made(first.st)

\* step() was called on a stepper that was already waiting for an answer in
\* the middle of a sort (answer() had ended with its own step())
C6_Witness ==
    /\ last_call = "step"
    /\ comparisons >= 3
    /\ pending # None
    /\ ret = Some(Compare(pending[1].a, pending[1].b))

\* C7: with no comparison pending, answer(x) returns what step() returns,
\* leaves comparisons_made() unchanged and gives the same stepper for both x.
C7_AnswerWithoutPendingIsStep ==
    (pending = None /\ panic = "") =>
        /\ \A x \in BOOLEAN :
              /\ answer(Self, x).ret = step(Self).ret
              /\ answer(Self, x).st = step(Self).st
              /\ comparisons_made(answer(Self, x).st) = comparisons
        /\ answer(Self, TRUE).st = answer(Self, FALSE).st

\* answer() was called on a fresh stepper before any step(): it emitted the
\* first comparison and accepted nothing
C7_Witness ==
    /\ n_items >= 2
    /\ last_call = "answer"
    /\ answers = <<>>
    /\ comparisons = 0
    /\ ret = Some(Compare(0, 1))

\* C8: while frames remain on the stack (the sort has not reached Done),
\* take_order() returns absence and leaves the stepper as it was.
C8_TakeOrderBeforeDone ==
    (stack # <<>> /\ panic = "") =>
        /\ take_order(Self).ret = None
        /\ take_order(Self).st = Self

\* take_order() was called in the middle of a sort and returned absence
C8_Witness ==
    /\ last_call = "take_order"
    /\ took = None
    /\ stack # <<>>
    /\ pending # None
    /\ comparisons >= 2

\* C9 (as claimed): take_order() hands out an order at most once, whatever
\* step() and answer() calls are made in between.
C9_OrderHandedOutOnce == Len(handed) <= 1

\* C10: for n <= 1 the stepper starts terminated: no frame, no Compare ever
\* emitted, comparisons_made() = 0, every step()/answer() returns Done and
\* the first take_order() returns the identity order.
C10_TrivialSortsStartDone ==
    (n_items <= 1 /\ bphase = "idle") =>
        /\ panic = ""
        /\ emitted = <<>>
        /\ pending = None
        /\ comparisons = 0
        /\ ret # None => ret = Some(DoneStep)
        /\ handed = <<>> => done = Some(Identity(n_items))
        /\ handed # <<>> => handed[1] = Identity(n_items)

\* Stepper::new(1) was stepped and its order [0] was taken
C10_Witness ==
    /\ n_items = 1
    /\ bphase = "idle"
    /\ ret = Some(DoneStep)
    /\ handed = <<<<0>>>>

\* ---- the stepper against the batch sorter ----
\* the accepted answers never gave two different answers to one ordered pair
HistoryIsFunction ==
    \A j, k \in 1..Len(answers) : emitted[j] = emitted[k] => answers[j] = answers[k]

\* an answer function the accepted answers come from: the answer given where
\* the pair was asked, `other` on every pair that was not
AnswerFunction(other) ==
    [p \in (0..MaxN) \X (0..MaxN) |->
        IF \E k \in 1..Len(answers) : emitted[k] = p
        THEN answers[CHOOSE k \in 1..Len(answers) : emitted[k] = p]
        ELSE other]

IsPrefix(v, w) == Len(v) <= Len(w) /\ v = SubSeq(w, 1, Len(v))

\* C11: the stepper refines the batch sorter.  In every state of every run,
\* for an answer function f the accepted answers come from, the Compare
\* requests emitted so far are the first calls cmp(a, b) that ford_johnson
\* makes on 0..n-1 with cmp = f, in the same order; once Done was returned
\* they are all of its calls, comparisons_made() is their number and the
\* order take_order() hands out first is ford_johnson's result.
C11_StepperRefinesBatch ==
    panic = "" =>
        /\ HistoryIsFunction
        /\ \A other \in BOOLEAN :
              LET fj == ford_johnson(Identity(n_items), AnswerFunction(other), <<>>)
              IN  /\ ~fj.panic
                  /\ IsPrefix(emitted, fj.calls)
                  /\ ret = Some(DoneStep) =>
                        /\ emitted = fj.calls
                        /\ comparisons = Len(fj.calls)
                        /\ handed = <<>> => done = Some(fj.out)
                        /\ handed # <<>> => handed[1] = fj.out

\* a sort of six items answered true throughout (the constant-true answer
\* function) reached Done and its order was taken
C11_Witness ==
    /\ n_items = 6
    /\ ret = Some(DoneStep)
    /\ Len(answers) >= 8
    /\ \A k \in 1..Len(answers) : answers[k]
    /\ Len(handed) = 1
    /\ handed[1] = ford_johnson(Identity(6), AnswerFunction(TRUE), <<>>).out

\* the answer streams appended to a finished history
Extras == {<<TRUE>>, <<FALSE>>, <<TRUE, FALSE>>, <<FALSE, FALSE, TRUE>>}

\* C12: Done is absorbing.  In every state in which the last step() or
\* answer() returned Done, the next step() and the next answer(x) return Done
\* and leave comparisons_made() unchanged, and derive_state on the accepted
\* answers followed by extra ones equals derive_state on the accepted answers
\* (a replay does not depend on the take_order() calls made, so it is compared
\* in the states where none was made).
C12_DoneIsAbsorbing ==
    (ret = Some(DoneStep) /\ panic = "") =>
        /\ step(Self).ret = DoneStep
        /\ comparisons_made(step(Self).st) = comparisons
        /\ \A x \in BOOLEAN :
              /\ answer(Self, x).ret = DoneStep
              /\ comparisons_made(answer(Self, x).st) = comparisons
        /\ handed = <<>> =>
              \A extra \in Extras :
                  derive_state(n_items, answers \o extra) = derive_state(n_items, answers)

\* a finished sort of at least four items whose order was taken was called
\* again with answer(), which returned Done
C12_Witness ==
    /\ n_items >= 4
    /\ ret = Some(DoneStep)
    /\ last_call = "answer"
    /\ handed # <<>>
    /\ comparisons >= 4

\* C13: comparisons_made() counts the accepted answers.  It equals the
\* number of answers accepted so far (0 on a fresh stepper); step(),
\* take_order() and answer() with nothing pending leave it unchanged and
\* answer() on a pending comparison adds exactly 1; and replaying all but the
\* last of the accepted answers, k of them, gives comparisons = k and a
\* current comparison (the shorter prefixes are the histories of the earlier
\* states of the run).
C13_ComparisonsCountAnswers ==
    panic = "" =>
        /\ comparisons = Len(answers)
        /\ comparisons_made(Self) = comparisons
        /\ comparisons_made(step(Self).st) = comparisons
        /\ comparisons_made(take_order(Self).st) = comparisons
        /\ \A x \in BOOLEAN :
              comparisons_made(answer(Self, x).st)
                  = IF pending # None THEN comparisons + 1 ELSE comparisons
        /\ answers # <<>> =>
              LET k  == Len(answers) - 1
                  rs == derive_state(n_items, SubSeq(answers, 1, k))
              IN  rs.comparisons = k /\ rs.current # None /\ rs.ranking = None

\* in the middle of a sort, after pairing and search answers, the stepper
\* waits at a Compare
C13_Witness ==
    /\ n_items >= 5
    /\ last_call = "answer"
    /\ comparisons = 5
    /\ pending # None
    /\ pending[1].kind = "Search"
    /\ ret = Some(Compare(pending[1].a, pending[1].b))

\* the bound of the binary search a frame is in: the position of the main of
\* the element being inserted, or the length of the chain
SearchBound(f) == start_search([f EXCEPT !.search = None]).search[1].hi

\* C17 (as claimed): every binary search started for an insertion has a range
\* [0, bound) with bound = 2^k - 1 for some k >= 1.
C17_SearchRangeIsFull ==
    panic = "" =>
        \A j \in 1..Len(stack) :
            (stack[j].state = "Insert" /\ stack[j].search # None) =>
                \E k \in 1..MaxN : SearchBound(stack[j]) = 2 ^ k - 1

\* C18: the stepper is total: whatever step(), answer(true/false) and
\* take_order() calls are made, no expect or unreachable! fails and no index
\* into elements, chain, pending, order or partner_of is out of range.
C18_NoPanic == panic = ""

\* a sort of six items answered with both kinds of answers, with calls of
\* step() and take_order() in between, reached Done
C18_Witness ==
    /\ n_items = 6
    /\ panic = ""
    /\ ret = Some(DoneStep)
    /\ last_call = "take_order"
    /\ Len(handed) = 2
    /\ Len(answers) >= 9
    /\ \E j, k \in 1..Len(answers) : j < k /\ ~answers[j] /\ answers[k]

\* C20: the frame stack.  In every state step() or answer() leaves, every
\* frame below the top is in AwaitMains and holds the child above it, whose
\* elements are the mains of all its pairs; the top frame is not in
\* AwaitMains; and neither unreachable! of the AwaitMains handling fails.
C20_FrameStackShape ==
    /\ panic # "unreachable: awaiting child frame result"
    /\ panic # "unreachable: only await-mains can receive a result"
    /\ panic = "" =>
          /\ \A k \in 1..(Len(stack) - 1) :
                /\ stack[k].state = "AwaitMains"
                /\ Len(stack[k + 1].elements) = Len(stack[k].elements) \div 2
                /\ \A j \in 1..Len(stack[k + 1].elements) :
                      \E i \in 1..Len(stack[k].elements) :
                          stack[k + 1].elements[j] = stack[k].elements[i]
          /\ stack # <<>> => Last(stack).state # "AwaitMains"

\* a parent waits in AwaitMains below its child, which is asking a question
\* of a binary search
C20_Witness ==
    /\ Len(stack) = 2
    /\ stack[1].state = "AwaitMains"
    /\ stack[2].state = "Insert"
    /\ pending # None
    /\ n_items = 6

\* C21: the suspension point.  In every state step() or answer() leaves,
\* either it returned Compare{a, b}, a pending record with the same (a, b) is
\* set and its variant matches the top frame (Pairing: the frame is pairing,
\* i < num_pairs and (a, b) = (elements[2i], elements[2i + 1]); Search: the
\* frame is inserting, its search has mid set, a = elem and b = chain[mid]);
\* or it returned Done, nothing is pending and the stack is empty.
C21_SuspensionPoint ==
    (ret # None /\ panic = "") =>
        \/ /\ ret[1][1] = "Compare"
           /\ pending # None
           /\ pending[1].a = ret[1][2]
           /\ pending[1].b = ret[1][3]
           /\ stack # <<>>
           /\ LET f == Last(stack)
                  p == pending[1]
              IN  \/ /\ p.kind = "Pairing"
                     /\ f.state = "Pairing"
                     /\ f.i < f.num_pairs
                     /\ p.a = At(f.elements, 2 * f.i)
                     /\ p.b = At(f.elements, 2 * f.i + 1)
                  \/ /\ p.kind = "Search"
                     /\ f.state = "Insert"
                     /\ f.search # None
                     /\ f.search[1].mid # None
                     /\ p.a = f.search[1].elem
                     /\ p.b = At(f.chain, f.search[1].mid[1])
        \/ /\ ret[1] = DoneStep
           /\ pending = None
           /\ stack = <<>>

\* step() was called again while the second question of a binary search in
\* the top-level frame was pending
C21_Witness ==
    /\ last_call = "step"
    /\ Len(stack) = 1
    /\ pending # None
    /\ pending[1].kind = "Search"
    /\ Last(stack).search # None
    /\ Last(stack).search[1].lo > 0
    /\ ret = Some(Compare(pending[1].a, pending[1].b))

RECURSIVE PairingCount(_)
\* how many comparisons a run on count items spends on pairing, over all
\* levels of the recursion: they are the first comparisons of the run
PairingCount(count) ==
    IF count <= 1 THEN 0 ELSE count \div 2 + PairingCount(count \div 2)

\* the sequences of indices a state shows: the chain of the inserting top
\* frame, the finished order, the orders handed out
ShownOrders ==
    (IF stack # <<>> /\ Last(stack).state = "Insert" THEN {Last(stack).chain} ELSE {})
    \cup (IF done # None THEN {done[1]} ELSE {})
    \cup {handed[k] : k \in 1..Len(handed)}

\* x stands before y wherever both stand in v
Precedes(v, x, y) ==
    (Position(v, x) >= 0 /\ Position(v, y) >= 0) => Position(v, x) < Position(v, y)

\* C22: bounded insertion.  Under every answer stream, a partner is never
\* placed behind the main it was paired with: in the chain of the inserting
\* frame, in the finished order and in the order handed out, the better
\* element of every answered pairing comparison stands before the worse one;
\* every inserted element of a frame's pending list stands before its main,
\* whose position bounds the search (0 <= lo <= hi <= position of the main).
C22_BoundedInsertion ==
    panic = "" =>
        /\ \A k \in 1..Len(answers) :
              k <= PairingCount(n_items) =>
                  LET partner == IF answers[k] THEN emitted[k][1] ELSE emitted[k][2]
                      main    == IF answers[k] THEN emitted[k][2] ELSE emitted[k][1]
                  IN  \A v \in ShownOrders : Precedes(v, partner, main)
        /\ \A j \in 1..Len(stack) :
              stack[j].state = "Insert" =>
                  /\ \A k \in 1..Len(stack[j].pending) :
                        stack[j].pending[k].main # None =>
                            /\ Position(stack[j].chain, stack[j].pending[k].main[1]) >= 1
                            /\ Precedes(stack[j].chain, stack[j].pending[k].elem,
                                        stack[j].pending[k].main[1])
                  /\ stack[j].search # None =>
                        /\ 0 <= stack[j].search[1].lo
                        /\ stack[j].search[1].lo <= stack[j].search[1].hi
                        /\ stack[j].search[1].hi <= SearchBound(stack[j])

\* a sort of six items answered false throughout, which sends every inserted
\* element as far back as its bound allows, reached Done
C22_Witness ==
    /\ n_items = 6
    /\ ret = Some(DoneStep)
    /\ done # None
    /\ Len(done[1]) = 6
    /\ Len(answers) >= 8
    /\ \A k \in 1..Len(answers) : ~answers[k]

\* the first position of the range [0, bound) of chain whose element the user
\* prefers elem to, or bound when there is none
FirstWorse(chain, bound, elem) ==
    IF \E p \in 0..(bound - 1) : prefers(elem, At(chain, p))
    THEN CHOOSE p \in 0..(bound - 1) :
            /\ prefers(elem, At(chain, p))
            /\ \A q \in 0..(p - 1) : ~prefers(elem, At(chain, q))
    ELSE bound

\* C23: the chain order.  When the answers are those of a strict total order
\* of the indices, the chain of every inserting frame is strictly increasing
\* under that order, from its seeding through every insertion, and the answer
\* that completes a binary search inserts elem at the first position p of its
\* range with better(elem, chain[p]), or at the bound when there is none.
C23_ChainIsOrdered ==
    panic = "" =>
        /\ \A j \in 1..Len(stack) :
              stack[j].state = "Insert" =>
                  \A k \in 1..(Len(stack[j].chain) - 1) :
                      prefers(stack[j].chain[k], stack[j].chain[k + 1])
        /\ (pending # None /\ pending[1].kind = "Search") =>
              LET f     == Last(stack)
                  x     == prefers(pending[1].a, pending[1].b)
                  after == Last(answer_search(Self, x).stack)
              IN  Len(after.chain) = Len(f.chain) + 1 =>
                      /\ after.search = None
                      /\ after.order_idx = f.order_idx + 1
                      /\ Position(after.chain, f.search[1].elem)
                            = FirstWorse(f.chain, SearchBound(f), f.search[1].elem)

\* five items ranked in reverse: the top frame has inserted one element and
\* is searching the place of the second
C23_Witness ==
    /\ items = <<4, 3, 2, 1, 0>>
    /\ Len(stack) = 1
    /\ Last(stack).state = "Insert"
    /\ Last(stack).order_idx = 1
    /\ Len(Last(stack).chain) = 4
    /\ pending # None
    /\ Last(stack).search[1].lo > 0

\* the main and the partner the k-th answer of a run makes of the pair
\* (2(k - 1), 2(k - 1) + 1): true makes b the main, false makes a the main
TopMain(k) == IF answers[k] THEN 2 * (k - 1) + 1 ELSE 2 * (k - 1)

TopPartner(k) == IF answers[k] THEN 2 * (k - 1) ELSE 2 * (k - 1) + 1

\* C24: the pairing phase.  Whatever the answers, the first floor(n / 2)
\* comparisons a stepper emits are Compare{2i, 2i + 1} for i = 0, 1, ... in
\* that order; an answer of true makes b the main and a its partner, an
\* answer of false makes a the main and b its partner; the mains, in the
\* order of their pairs, are the elements of the child frame.
C24_PairingPhase ==
    panic = "" =>
        /\ \A k \in 1..Len(emitted) :
              k <= n_items \div 2 => emitted[k] = <<2 * (k - 1), 2 * (k - 1) + 1>>
        /\ stack # <<>> =>
              LET f        == stack[1]
                  pairs    == n_items \div 2
                  answered == IF Len(answers) <= pairs THEN Len(answers) ELSE pairs
              IN  /\ f.state = "Pairing" =>
                        /\ f.i = answered
                        /\ Len(f.mains) = answered
                        /\ \A k \in 1..answered :
                              /\ f.mains[k] = TopMain(k)
                              /\ f.partner_of[TopMain(k)] = TopPartner(k)
                  /\ f.state = "AwaitMains" =>
                        /\ Len(stack) >= 2
                        /\ stack[2].elements = [k \in 1..pairs |-> TopMain(k)]
                        /\ \A k \in 1..pairs : f.partner_of[TopMain(k)] = TopPartner(k)
                  /\ f.state = "Insert" =>
                        \A j \in 1..Len(f.pending) :
                            f.pending[j].main # None =>
                                \E k \in 1..pairs :
                                    /\ f.pending[j].main[1] = TopMain(k)
                                    /\ f.pending[j].elem = TopPartner(k)
        /\ (n_items = 2 /\ Len(answers) = 1 /\ done # None /\ handed = <<>>) =>
              done[1] = <<TopPartner(1), TopMain(1)>>

\* the three pairs of six items were answered true, false, true and the
\* mains 1, 2, 5 went to the child frame
C24_Witness ==
    /\ n_items = 6
    /\ answers = <<TRUE, FALSE, TRUE>>
    /\ emitted = <<<<0, 1>>, <<2, 3>>, <<4, 5>>, <<1, 2>>>>
    /\ Len(stack) = 2
    /\ stack[1].state = "AwaitMains"
    /\ stack[2].elements = <<1, 2, 5>>

\* C26: the progress bound.  In every reachable state of Stepper::new(n),
\* under every answer stream, comparisons_made() is at most estimate_turns(n),
\* so the percentage the progress bar shows is at most 100.
C26_ProgressBound ==
    panic = "" =>
        /\ comparisons_made(Self) <= estimate_turns(n_items)
        /\ progress_pct(comparisons_made(Self), estimate_turns(n_items)) >= 0
        /\ progress_pct(comparisons_made(Self), estimate_turns(n_items)) <= 100

\* a sort of four items used all five comparisons of its estimate: the bar
\* shows 100 percent
C26_Witness ==
    /\ n_items = 4
    /\ comparisons = 5
    /\ estimate_turns(4) = 5
    /\ progress_pct(comparisons, estimate_turns(n_items)) = 100
    /\ ret = Some(DoneStep)

\* C27: no repeated and no degenerate question.  In one run of
\* Stepper::new(n), under every answer stream, every emitted Compare{a, b}
\* has a # b with a and b in 0..n-1, and no unordered pair {a, b} is asked
\* twice.
C27_NoRepeatedQuestion ==
    panic = "" =>
        \A k \in 1..Len(emitted) :
            /\ emitted[k][1] # emitted[k][2]
            /\ emitted[k][1] \in 0..(n_items - 1)
            /\ emitted[k][2] \in 0..(n_items - 1)
            /\ \A j \in 1..(k - 1) :
                  {emitted[j][1], emitted[j][2]} # {emitted[k][1], emitted[k][2]}

\* a sort of six items asked ten different questions, the most it can ask
C27_Witness ==
    /\ n_items = 6
    /\ Len(emitted) = 10
    /\ Cardinality({{emitted[k][1], emitted[k][2]} : k \in 1..10}) = 10
    /\ ret = Some(DoneStep)

RECURSIVE MicroSteps(_)
\* how many times the loop of step() runs its body from stepper s until it
\* returns
MicroSteps(s) ==
    IF s.panic # "" \/ s.done # None \/ s.stack = <<>> THEN 1
    ELSE LET p == pop_done_frame(s)
         IN  IF p.popped THEN 1 + MicroSteps(p.st)
             ELSE LET r == advance_frame(s)
                  IN  IF r.st.panic = "" /\ r.step # None THEN 1
                      ELSE 1 + MicroSteps(r.st)

\* the stepper after the arm of answer() that applies x to the pending comparison
Applied(x) ==
    LET taken == [Self EXCEPT !.pending = None, !.comparisons = comparisons + 1]
    IN  IF pending[1].kind = "Pairing" THEN answer_pairing(taken, x)
        ELSE answer_search(taken, x)

\* every call returns after a bounded number of passes of the loop of step(),
\* and an accepted answer advances the pairing index or shrinks the search
Progresses ==
    /\ panic = ""
    /\ pending = None => MicroSteps(Self) <= 3 * n_items + 3
    /\ pending # None =>
          \A x \in BOOLEAN :
              LET f == Last(stack)
                  g == Last(Applied(x).stack)
              IN  /\ MicroSteps(Applied(x)) <= 3 * n_items + 3
                  /\ pending[1].kind = "Pairing" => g.i = f.i + 1
                  /\ pending[1].kind = "Search" =>
                        \/ /\ g.search = None
                           /\ g.order_idx = f.order_idx + 1
                           /\ Len(g.chain) = Len(f.chain) + 1
                        \/ /\ g.search # None
                           /\ g.search[1].lo <= g.search[1].hi
                           /\ g.search[1].hi - g.search[1].lo
                                 < f.search[1].hi - f.search[1].lo

\* the order of a sort that reached Done is a permutation of 0..n-1
DoneIsPermutation ==
    ret = Some(DoneStep) =>
        /\ handed = <<>> => (done # None /\ IsPermutationOfIndices(done[1], n_items))
        /\ handed # <<>> => IsPermutationOfIndices(handed[1], n_items)

\* C25: termination.  Under a driver that goes on answering, with any
\* answers, every step() and answer() returns after a bounded number of
\* passes of its loop, every accepted answer advances the pairing index or
\* strictly shrinks hi - lo of the active search, the stepper eventually
\* returns Done, and the order of a finished sort is a permutation of 0..n-1.
C25_Termination ==
    /\ [](Progresses /\ DoneIsPermutation)
    /\ <>(ret = Some(DoneStep))

\* a sort of six items reached Done after ten answers and handed out its order
C25_Witness ==
    /\ n_items = 6
    /\ comparisons = 10
    /\ ret = Some(DoneStep)
    /\ Len(handed) = 1
    /\ IsPermutationOfIndices(handed[1], 6)
    /\ handed[1] # Identity(6)

(***************************************************************************)
(* Claims about the pure functions                                         *)
(***************************************************************************)
\* C14: estimate_turns is monotone nondecreasing: estimate_turns(n) is at most
\* estimate_turns(n + 1) for every n from 0 to MaxTurnsArg (64), and
\* estimate_turns(0) = estimate_turns(1) = 0.
C14_EstimateMonotone ==
    (fn_call.fn = "estimate_turns" /\ fn_result # None) =>
        /\ fn_result[1].turns <= fn_result[1].next
        /\ fn_call.arg <= 1 => fn_result[1].turns = 0

\* estimate_turns(64) and estimate_turns(65) were computed and differ
C14_Witness ==
    /\ fn_call.fn = "estimate_turns"
    /\ fn_call.arg = 64
    /\ fn_result # None
    /\ fn_result[1].turns < fn_result[1].next

\* C15 (as claimed): for every n from 0 to 8, estimate_turns(n) equals the
\* worst-case count optimal[n] of the test's table.
C15_EstimateIsWorstCase ==
    (fn_call.fn = "estimate_turns" /\ fn_result # None
     /\ fn_call.arg <= 8) =>
        fn_result[1].turns = optimal[fn_call.arg + 1]

\* C15 (amended): estimate_turns(n) equals the worst-case count optimal[n]
\* for n from 0 to 4; for n from 5 to 8 it is 8, 12, 15, 18, strictly above
\* the worst-case counts 7, 10, 13, 16.
C15_EstimateBoundsWorstCase ==
    (fn_call.fn = "estimate_turns" /\ fn_result # None
     /\ fn_call.arg <= 8) =>
        /\ fn_result[1].turns = <<0, 0, 1, 3, 5, 8, 12, 15, 18>>[fn_call.arg + 1]
        /\ fn_call.arg <= 4 => fn_result[1].turns = optimal[fn_call.arg + 1]
        /\ fn_call.arg >= 5 => fn_result[1].turns > optimal[fn_call.arg + 1]

\* estimate_turns(5) was computed: 8, one more than the worst case 7
C15_Witness ==
    /\ fn_call.fn = "estimate_turns"
    /\ fn_call.arg = 5
    /\ fn_result = Some([turns |-> 8, next |-> 12])

\* C16: jacobsthal_order(count) returns a sequence of length count that holds
\* every index of 0..count-1 exactly once; no entry is negative (b - 2 never
\* underflows) or reaches count, and every pass of the loop pushes at least
\* one index, so the loop ends after at most count passes.
C16_JacobsthalIsPermutation ==
    (fn_call.fn = "jacobsthal_order" /\ fn_result # None) =>
        LET order  == fn_result[1].order
            passes == fn_result[1].passes
        IN  /\ Len(order) = fn_call.arg
            /\ \A k \in 1..Len(order) : order[k] >= 0 /\ order[k] < fn_call.arg
            /\ IsPermutationOfIndices(order, fn_call.arg)
            /\ \A k \in 1..Len(passes) : passes[k] >= 1
            /\ Len(passes) <= fn_call.arg

\* an order that ends in a cut-off group beyond the boundary 43
C16_Witness ==
    /\ fn_call.fn = "jacobsthal_order"
    /\ fn_call.arg = 45
    /\ fn_result # None
    /\ SubSeq(fn_result[1].order, 1, 5) = <<1, 0, 3, 2, 9>>
    /\ fn_result[1].order[45] = 42
    /\ fn_result[1].passes = <<2, 2, 6, 10, 22, 3>>

\* C19: the answer history survives the hash: the characters build_hash
\* writes for it are read back by parse_hash as the same booleans, and
\* characters other than 'a' and 'b' inserted among them change nothing.
C19_AnswersRoundTrip ==
    (fn_call.fn = "hash" /\ fn_result # None) =>
        /\ Len(fn_result[1].encoded) = Len(fn_call.arg.history)
        /\ fn_result[1].decoded = fn_call.arg.history
        /\ fn_result[1].decoded_noisy = fn_call.arg.history

\* a history with both answers was read back from a string with an upper
\* case letter and a separator inserted in its middle
C19_Witness ==
    /\ fn_call.fn = "hash"
    /\ fn_result # None
    /\ fn_call.arg.history = <<TRUE, FALSE, FALSE, TRUE>>
    /\ fn_result[1].noisy = <<"a", "b", "A", "!", "b", "a">>
    /\ fn_result[1].decoded_noisy = <<TRUE, FALSE, FALSE, TRUE>>


\* C28: the full URL hash round trip.  For every non-empty list of non-empty
\* items and every answer sequence, parse_hash on the hash of build_hash
\* gives back the same items and the same answers; the hash holds a '!'
\* exactly when there are answers; and the empty hash parses to no items and
\* no answers.
C28_HashRoundTrip ==
    fn_result # None =>
        /\ fn_call.fn = "push_hash_full" =>
              /\ fn_result[1].parsed.items = fn_call.arg.items
              /\ fn_result[1].parsed.answers = fn_call.arg.history
              /\ (first_index(fn_result[1].hash, "!") = 0) <=> (fn_call.arg.history = <<>>)
        /\ (fn_call.fn = "parse_hash" /\ fn_result[1].hash = <<>>) =>
              fn_result[1].parsed = [items |-> <<>>, answers |-> <<>>]
=========================================================================
